---- MODULE Spec2Model ----
(***************************************************************************)
(* The exported sampler bindings of ReciprocalGraphicalModels              *)
(* (src/src/RcppExports.cpp): the four .Call wrappers, the registration    *)
(* table and the library initialiser, together with the host runtime that  *)
(* calls them and owns the random number generator.                        *)
(*                                                                         *)
(* A double is modelled by an integer of a small grid.  A probability is   *)
(* modelled in units of 1/Unit, so the interval [0,1] is 0..Unit.          *)
(***************************************************************************)
EXTENDS Integers, Sequences, FiniteSets, TLC

\* ------------------------------------------------------------------ bounds
\* Number of states of the host's random number generator.
RngMod == 3
\* Largest real scalar the host passes (the smallest is -1).
MaxVal == 1
\* Largest dimension of a matrix the host passes.
MatDim == 2

\* One whole probability, in grid units.
Unit == RngMod - 1

VARIABLES
    dll,        \* the DllInfo of the library: registered .Call routines, dynamic lookup
    pc,         \* position of the (single) host thread inside a wrapper, or "idle"
    fn,         \* the wrapper being executed
    sexp,       \* the boxed arguments of the call, objects held by the caller
    entry,      \* the caller's objects as they were when the call was made
    locals,     \* the wrapper's converted arguments, by parameter name
    ret,        \* the double the underlying routine returned
    result,     \* rcpp_result_gen
    exc,        \* the C++ exception in flight, "" when none
    outcome,    \* what the host got back from the last .Call
    calls,      \* invocations of the underlying routines made by the current call
    draws,      \* variates drawn from the generator by the current call
    unscoped,   \* TRUE once a variate was drawn with no RNG scope open
    seed,       \* the host's .Random.seed
    seed0,      \* .Random.seed when the current call was made
    gen,        \* the generator's internal state, which the variates are drawn from
    rngDepth,   \* Rcpp's count of open RNG scopes
    st,         \* the Gibbs driver's current parameter vector
    st0,        \* the parameter vector at the start of the sweep
    todo,       \* samplers the driver has yet to call in this sweep
    used,       \* per sampler, the generator state its call of this sweep started from
    inp,        \* the driver's matrices, hyperparameters and latent scales, by name
    ref         \* a finished call the host has set aside to compare a repetition with

vars == <<dll, pc, fn, sexp, entry, locals, ret, result, exc, outcome, calls, draws,
          unscoped, seed, seed0, gen, rngDepth, st, st0, todo, used, inp, ref>>

callVars == <<pc, fn, sexp, entry, locals, ret, result, exc, outcome, calls, draws,
              unscoped, seed, seed0, gen, rngDepth>>

hostVars == <<st, st0, todo, used, inp, ref>>

\* ------------------------------------------------------------ host values
\* A SEXP: type tag t, scalar payload v, and for a matrix its dimension d > 0
\* with the entries m in column-major order.
RealSxp(v) == [t |-> "REALSXP", v |-> v, d |-> 0, m |-> <<>>]
IntSxp(v) == [t |-> "INTSXP", v |-> v, d |-> 0, m |-> <<>>]
StrSxp == [t |-> "STRSXP", v |-> 0, d |-> 0, m |-> <<>>]
NilSxp == [t |-> "NILSXP", v |-> 0, d |-> 0, m |-> <<>>]
RealMatSxp(d, m) == [t |-> "REALSXP", v |-> 0, d |-> d, m |-> m]
IntMatSxp(d, m) == [t |-> "INTSXP", v |-> 0, d |-> d, m |-> m]

\* Native values: a C++ double, an arma::mat.
Dbl(v) == [k |-> "double", v |-> v, d |-> 0, m |-> <<>>]
Mat(d, m) == [k |-> "mat", v |-> 0, d |-> d, m |-> m]

\* Rf_length
SexpLength(x) == IF x.d = 0 THEN 1 ELSE x.d * x.d

Numeric(x) == x.t \in {"REALSXP", "INTSXP"}

\* Rcpp::as<double>: a numeric vector of length one, coerced to double.
AsDoubleError(x) ==
    IF SexpLength(x) # 1 THEN "invalid_argument"
    ELSE IF ~Numeric(x) THEN "not_compatible"
    ELSE ""

AsDouble(x) == Dbl(IF SexpLength(x) = 1 THEN (IF x.d = 0 THEN x.v ELSE x.m[1]) ELSE 0)

\* input_parameter<const arma::mat&>: a numeric matrix, coerced to double.
AsMatError(x) ==
    IF ~Numeric(x) THEN "not_compatible"
    ELSE IF x.d = 0 THEN "not_a_matrix"
    ELSE ""

AsMat(x) == Mat(x.d, x.m)

\* Mutant of Wrap: the result object is returned as it was constructed.
WrapUnassigned(x) == NilSxp

\* Rcpp::wrap(double)
Wrap(x) == RealSxp(x)

\* ------------------------------------------------- the host's generator
\* One step of the generator.
NextGen(g) == (g + 1) % RngMod

\* The uniform variate a draw returns, in 0..Unit, and the state it leaves.
Draw(g) == [u |-> NextGen(g), gen |-> NextGen(g)]

\* GetRNGstate: the generator is loaded from .Random.seed.
GetRNGstate(sd, g) == sd

\* PutRNGstate: .Random.seed is stored from the generator.
PutRNGstate(sd, g) == g

\* Mutant of EnterRNGScope: the scope is counted, the generator is not loaded.
EnterRNGScopeNoGet(depth, sd, g) == [depth |-> depth + 1, gen |-> g]

\* Rcpp::RNGScope's constructor: the outermost scope loads the generator.
EnterRNGScope(depth, sd, g) ==
    [depth |-> depth + 1, gen |-> IF depth = 0 THEN GetRNGstate(sd, g) ELSE g]

\* Mutant of ExitRNGScope: the scope is counted, the generator is not stored.
ExitRNGScopeNoPut(depth, sd, g) == [depth |-> depth - 1, seed |-> sd]

\* Rcpp::RNGScope's destructor: the outermost scope stores the generator.
ExitRNGScope(depth, sd, g) ==
    [depth |-> depth - 1, seed |-> IF depth = 1 THEN PutRNGstate(sd, g) ELSE sd]

\* ------------------------------------------------------- the four samplers
Samplers == {"Rho", "Psi", "Eta", "Tau"}

\* The underlying routines' declared parameters.
RoutineParams(w) ==
    CASE w = "Rho" -> <<"Gamma", "p", "a_rho", "b_rho">>
      [] w = "Psi" -> <<"Phi", "d", "a_psi", "b_psi">>
      [] w = "Eta" -> <<"b", "phi", "a_eta", "b_eta", "nu_2">>
      [] w = "Tau" -> <<"a", "gamma", "a_tau", "b_tau", "nu_1">>

RoutineFail(e, g) == [err |-> e, val |-> 0, n |-> 0, gen |-> g]
RoutineOk(v, n, g) == [err |-> "", val |-> v, n |-> n, gen |-> g]

\* Entries of a d x d column-major matrix that are off the diagonal and not zero.
EdgeCount(M) ==
    Cardinality({i \in 1..Len(M.m) :
                   /\ M.m[i] # 0
                   /\ ((i - 1) % M.d) # ((i - 1) \div M.d)})

\* A Beta(s1, s2) variate computed from the uniform variate u, in 0..Unit.
BetaVariate(s1, s2, u) == (Unit * u * s1) \div (u * s1 + (Unit - u) * s2)

\* An Inverse-Gamma(shape, rate) variate computed from the uniform variate u.
InvGammaVariate(shape, rate, u) == (rate * (u + 1) + shape - 1) \div shape

\* The posterior Beta draw of Generate_Rho_c and Generate_Psi_c: k edges are
\* counted in the matrix, out of p*(p-1) possible ones; one variate is drawn.
BetaPosteriorDraw(M, p, a, b, g) ==
    IF a <= 0 \/ b <= 0 THEN RoutineFail("InvalidHyperparameter", g)
    ELSE IF M.d # p THEN RoutineFail("DimensionMismatch", g)
    ELSE LET k == EdgeCount(M)
             dr == Draw(g)
         IN  RoutineOk(BetaVariate(a + k, b + (p * (p - 1) - k), dr.u), 1, dr.gen)

Generate_Rho_c(Gamma, p, a_rho, b_rho, g) == BetaPosteriorDraw(Gamma, p, a_rho, b_rho, g)

Generate_Psi_c(Phi, d, a_psi, b_psi, g) == BetaPosteriorDraw(Phi, d, a_psi, b_psi, g)

\* The Inverse-Gamma draw of Generate_Eta_c and Generate_Tau_c from the squared
\* coefficient c, the global scale s and the hyperparameters; one variate is drawn.
ShrinkageDraw(c, s, a, b, nu, g) ==
    IF a <= 0 \/ b <= 0 \/ nu <= 0 THEN RoutineFail("InvalidHyperparameter", g)
    ELSE LET shape == a + nu
             rate == b + c * c * s
             dr == Draw(g)
         IN  IF rate <= 0 THEN RoutineFail("NumericalDegeneracy", g)
             ELSE RoutineOk(InvGammaVariate(shape, rate, dr.u), 1, dr.gen)

Generate_Eta_c(b, phi, a_eta, b_eta, nu_2, g) == ShrinkageDraw(b, phi, a_eta, b_eta, nu_2, g)

Generate_Tau_c(a, gamma, a_tau, b_tau, nu_1, g) == ShrinkageDraw(a, gamma, a_tau, b_tau, nu_1, g)

\* The routine w applied to its positional arguments, from generator state g.
Routine(w, argv, g) ==
    CASE w = "Rho" -> Generate_Rho_c(argv[1], argv[2].v, argv[3].v, argv[4].v, g)
      [] w = "Psi" -> Generate_Psi_c(argv[1], argv[2].v, argv[3].v, argv[4].v, g)
      [] w = "Eta" -> Generate_Eta_c(argv[1].v, argv[2].v, argv[3].v, argv[4].v, argv[5].v, g)
      [] w = "Tau" -> Generate_Tau_c(argv[1].v, argv[2].v, argv[3].v, argv[4].v, argv[5].v, g)

\* ------------------------------------------------------------ the wrappers
\* The wrappers' parameters (each a SEXP), in the order of the signature.
WrapperParams(w) ==
    CASE w = "Rho" -> <<"Gamma", "p", "a_rho", "b_rho">>
      [] w = "Psi" -> <<"Phi", "d", "a_psi", "b_psi">>
      [] w = "Eta" -> <<"b", "phi", "a_eta", "b_eta", "nu_2">>
      [] w = "Tau" -> <<"a", "gamma", "a_tau", "b_tau", "nu_1">>

\* Mutant of CallArgs: two neighbouring arguments change places.
CallArgsSwapped(w) ==
    CASE w = "Rho" -> <<"Gamma", "a_rho", "p", "b_rho">>
      [] w = "Psi" -> <<"Phi", "a_psi", "d", "b_psi">>
      [] w = "Eta" -> <<"b", "a_eta", "phi", "b_eta", "nu_2">>
      [] w = "Tau" -> <<"a", "a_tau", "gamma", "b_tau", "nu_1">>

\* Mutant of CallArgs: one argument is passed twice, its neighbour dropped.
CallArgsDuplicated(w) ==
    CASE w = "Rho" -> <<"Gamma", "p", "a_rho", "b_rho">>
      [] w = "Psi" -> <<"Phi", "d", "a_psi", "b_psi">>
      [] w = "Eta" -> <<"b", "b", "a_eta", "b_eta", "nu_2">>
      [] w = "Tau" -> <<"a", "a", "a_tau", "b_tau", "nu_1">>

\* The locals each wrapper passes to its routine, in the order of the call.
CallArgs(w) ==
    CASE w = "Rho" -> <<"Gamma", "p", "a_rho", "b_rho">>
      [] w = "Psi" -> <<"Phi", "d", "a_psi", "b_psi">>
      [] w = "Eta" -> <<"b", "phi", "a_eta", "b_eta", "nu_2">>
      [] w = "Tau" -> <<"a", "gamma", "a_tau", "b_tau", "nu_1">>

\* The native type each local is declared with.
ParamType(name) == IF name \in {"Gamma", "Phi"} THEN "mat" ELSE "double"

ConvertError(name, x) == IF ParamType(name) = "mat" THEN AsMatError(x) ELSE AsDoubleError(x)

Convert(name, x) == IF ParamType(name) = "mat" THEN AsMat(x) ELSE AsDouble(x)

\* Position of a parameter in a wrapper's signature.
ParamIndex(w, name) == CHOOSE i \in 1..Len(WrapperParams(w)) : WrapperParams(w)[i] = name

ParamSet(w) == {WrapperParams(w)[i] : i \in 1..Len(WrapperParams(w))}

\* The full exported symbol of a wrapper.
WrapperName(w) ==
    CASE w = "Rho" -> "_ReciprocalGraphicalModels_Generate_Rho_c"
      [] w = "Psi" -> "_ReciprocalGraphicalModels_Generate_Psi_c"
      [] w = "Eta" -> "_ReciprocalGraphicalModels_Generate_Eta_c"
      [] w = "Tau" -> "_ReciprocalGraphicalModels_Generate_Tau_c"

\* ------------------------------------------------------- the dispatch table
NullEntry == [name |-> "NULL", fun |-> "NULL", numArgs |-> 0]

\* Mutant of CallEntries: a five-parameter wrapper registered with four.
CallEntriesWrongArity ==
    << [name |-> "_ReciprocalGraphicalModels_Generate_Rho_c", fun |-> "Rho", numArgs |-> 4],
       [name |-> "_ReciprocalGraphicalModels_Generate_Psi_c", fun |-> "Psi", numArgs |-> 4],
       [name |-> "_ReciprocalGraphicalModels_Generate_Eta_c", fun |-> "Eta", numArgs |-> 4],
       [name |-> "_ReciprocalGraphicalModels_Generate_Tau_c", fun |-> "Tau", numArgs |-> 5],
       NullEntry >>

CallEntries ==
    << [name |-> "_ReciprocalGraphicalModels_Generate_Rho_c", fun |-> "Rho", numArgs |-> 4],
       [name |-> "_ReciprocalGraphicalModels_Generate_Psi_c", fun |-> "Psi", numArgs |-> 4],
       [name |-> "_ReciprocalGraphicalModels_Generate_Eta_c", fun |-> "Eta", numArgs |-> 5],
       [name |-> "_ReciprocalGraphicalModels_Generate_Tau_c", fun |-> "Tau", numArgs |-> 5],
       NullEntry >>

\* R_registerRoutines reads a table up to its first entry with a null name.
RECURSIVE UpToSentinel(_)
UpToSentinel(tbl) ==
    IF tbl = <<>> \/ Head(tbl).name = "NULL" THEN <<>>
    ELSE <<Head(tbl)>> \o UpToSentinel(Tail(tbl))

\* Symbols the shared object exports: the wrappers, the routines, the initialiser.
DllSymbols ==
    {WrapperName(w) : w \in Samplers}
        \cup {"Generate_Rho_c", "Generate_Psi_c", "Generate_Eta_c", "Generate_Tau_c"}
        \cup {"R_init_ReciprocalGraphicalModels"}

\* The host's lookup of a .Call symbol in the library: the registered routines
\* first, then (only if dynamic lookup is enabled) the exported symbols.
Resolve(d, name) ==
    LET hits == {i \in 1..Len(d.callRoutines) : d.callRoutines[i].name = name}
    IN  IF hits # {} THEN
            LET e == d.callRoutines[CHOOSE i \in hits : \A j \in hits : i <= j]
            IN  [found |-> TRUE, fun |-> e.fun, numArgs |-> e.numArgs]
        ELSE IF d.useDynamicSymbols /\ name \in DllSymbols THEN
            [found |-> TRUE, fun |-> name, numArgs |-> -1]
        ELSE [found |-> FALSE, fun |-> "NULL", numArgs |-> -1]

\* ------------------------------------------------------------- the host
\* A d x d matrix whose first k off-diagonal entries are 1, column-major.
EdgeMat(d, k) ==
    [i \in 1..(d * d) |->
        IF /\ ((i - 1) % d) # ((i - 1) \div d)
           /\ Cardinality({j \in 1..i : ((j - 1) % d) # ((j - 1) \div d)}) <= k
        THEN 1 ELSE 0]

\* The scalars the host passes: reals, an integer, a character string.
ScalarVals == {RealSxp(v) : v \in (-1)..MaxVal} \cup {IntSxp(2), StrSxp}

\* The objects the host passes for a matrix: real matrices, an integer matrix,
\* a real scalar.
MatVals ==
    UNION {{RealMatSxp(d, EdgeMat(d, k)) : k \in 0..(d * (d - 1))} : d \in 1..MatDim}
        \cup {IntMatSxp(1, <<1>>), RealSxp(1)}

\* The argument lists the host builds for sampler w.
ArgLists(w) ==
    IF w \in {"Rho", "Psi"}
    THEN {<<M, x, y, z>> : M \in MatVals, x \in ScalarVals, y \in ScalarVals, z \in ScalarVals}
    ELSE {<<v, w1, x, y, z>> : v \in ScalarVals, w1 \in ScalarVals, x \in ScalarVals,
                              y \in ScalarVals, z \in ScalarVals}

\* Argument lists of each length, for calls the host itself turns down.
ArityProbes == {<<RealSxp(1), RealSxp(1), RealSxp(1), RealSxp(1)>>,
                <<RealSxp(1), RealSxp(1), RealSxp(1), RealSxp(1), RealSxp(1)>>}

NoOutcome == [kind |-> "none", val |-> NilSxp, err |-> ""]
Returned(x) == [kind |-> "value", val |-> x, err |-> ""]
Raised(e) == [kind |-> "error", val |-> NilSxp, err |-> e]

UnloadedDll == [loaded |-> FALSE, callRoutines |-> <<>>, useDynamicSymbols |-> TRUE]

NoState == [s \in Samplers |-> 0]

\* The driver's inputs: every parameter of the four samplers, by name.
InputNames == UNION {ParamSet(w) : w \in Samplers}

NoInputs == [n \in InputNames |-> NilSxp]

NoRef == [set |-> FALSE, again |-> FALSE, fn |-> "none", args |-> <<>>, seed0 |-> 0,
          outcome |-> NoOutcome, seed1 |-> 0, gen1 |-> 0]

Init ==
    /\ dll = UnloadedDll
    /\ pc = "idle"
    /\ fn = "none"
    /\ sexp = <<>>
    /\ entry = <<>>
    /\ locals = <<>>
    /\ ret = 0
    /\ result = NilSxp
    /\ exc = ""
    /\ outcome = NoOutcome
    /\ calls = <<>>
    /\ draws = 0
    /\ unscoped = FALSE
    /\ seed \in 0..(RngMod - 1)
    /\ seed0 = seed
    /\ gen \in 0..(RngMod - 1)
    /\ rngDepth = 0
    /\ st = NoState
    /\ st0 = NoState
    /\ todo = {}
    /\ used = NoState
    /\ inp = NoInputs
    /\ ref = NoRef

\* R_init_ReciprocalGraphicalModels: the host loads the library.
R_init ==
    /\ ~dll.loaded
    /\ dll' = [loaded |-> TRUE,
               callRoutines |-> UpToSentinel(CallEntries),
               useDynamicSymbols |-> FALSE]
    /\ UNCHANGED <<callVars, hostVars>>

\* The user assigns .Random.seed between two calls.
HostSetSeed(s) ==
    /\ pc = "idle"
    /\ dll.loaded
    /\ s # seed
    /\ seed' = s
    /\ UNCHANGED <<dll, pc, fn, sexp, entry, locals, ret, result, exc, outcome, calls,
                   draws, unscoped, seed0, gen, rngDepth, hostVars>>

\* What .Call does with a symbol and an argument list before any wrapper runs.
DispatchError(d, name, args) ==
    LET r == Resolve(d, name)
    IN  IF ~r.found THEN "symbol not available for .Call"
        ELSE IF r.numArgs >= 0 /\ r.numArgs # Len(args) THEN "incorrect number of arguments"
        ELSE ""

\* The wrapper is entered with the caller's objects.
EnterWrapper(w, args) ==
    /\ pc' = "enter"
    /\ fn' = w
    /\ sexp' = args
    /\ entry' = args
    /\ locals' = <<>>
    /\ ret' = 0
    /\ result' = NilSxp
    /\ exc' = ""
    /\ outcome' = NoOutcome
    /\ calls' = <<>>
    /\ draws' = 0
    /\ seed0' = seed
    /\ UNCHANGED <<dll, unscoped, seed, gen, rngDepth>>
\* .Call(name, args...) on a symbol the library resolves, with as many
\* arguments as the routine is registered with.
HostCall ==
    /\ pc = "idle"
    /\ dll.loaded
    /\ \E w \in Samplers, name \in DllSymbols :
          /\ Resolve(dll, name).found
          /\ Resolve(dll, name).fun \in Samplers
          /\ \E args \in ArgLists(w) :
                /\ DispatchError(dll, name, args) = ""
                /\ EnterWrapper(Resolve(dll, name).fun, args)
    /\ UNCHANGED hostVars

\* .Call fails in the host: no wrapper runs.
HostCallRejected ==
    /\ pc = "idle"
    /\ dll.loaded
    /\ \E name \in DllSymbols, args \in ArityProbes :
          /\ DispatchError(dll, name, args) # ""
          /\ outcome' = Raised(DispatchError(dll, name, args))
    /\ pc' = "done"
    /\ UNCHANGED <<dll, fn, sexp, entry, locals, ret, result, exc, calls, draws, unscoped,
                   seed, seed0, gen, rngDepth, hostVars>>

\* The host takes what .Call gave it and goes on.
HostResume ==
    /\ pc = "done"
    /\ pc' = "idle"
    /\ fn' = "none"
    /\ sexp' = <<>>
    /\ entry' = <<>>
    /\ locals' = <<>>
    /\ ret' = 0
    /\ result' = NilSxp
    /\ outcome' = NoOutcome
    /\ calls' = <<>>
    /\ draws' = 0
    /\ exc' = ""
    /\ seed0' = seed
    /\ UNCHANGED <<dll, unscoped, seed, gen, rngDepth, hostVars>>

\* ------------------------------------------------- the body of a wrapper
\* BEGIN_RCPP; Rcpp::RObject rcpp_result_gen; Rcpp::RNGScope rcpp_rngScope_gen;
Enter ==
    /\ pc = "enter"
    /\ result' = NilSxp
    /\ rngDepth' = EnterRNGScope(rngDepth, seed, gen).depth
    /\ gen' = EnterRNGScope(rngDepth, seed, gen).gen
    /\ pc' = "convert"
    /\ UNCHANGED <<dll, fn, sexp, entry, locals, ret, exc, outcome, calls, draws, unscoped,
                   seed, seed0, hostVars>>

\* Parameters whose conversion throws.
BadParams(w, args) == {n \in ParamSet(w) : ConvertError(n, args[ParamIndex(w, n)]) # ""}

\* The matrix parameter is converted where it is declared, before the scalars,
\* which are converted in an order the language leaves open.
FirstToThrow(w, args) ==
    IF \E n \in BadParams(w, args) : ParamType(n) = "mat"
    THEN {n \in BadParams(w, args) : ParamType(n) = "mat"}
    ELSE BadParams(w, args)

\* Mutant of ArgsAfterConvert: an integer argument is coerced in place.
ArgsCoercedInPlace(w, args) ==
    [i \in 1..Len(args) |->
        IF args[i].t = "INTSXP" THEN [args[i] EXCEPT !.t = "REALSXP"] ELSE args[i]]

\* The caller's objects after the arguments were converted: they are only read.
ArgsAfterConvert(w, args) == args

\* Rcpp::traits::input_parameter< T >::type x(xSEXP); for every parameter.
ConvertArgs ==
    /\ pc = "convert"
    /\ BadParams(fn, sexp) = {}
    /\ locals' = [n \in ParamSet(fn) |-> Convert(n, sexp[ParamIndex(fn, n)])]
    /\ sexp' = ArgsAfterConvert(fn, sexp)
    /\ pc' = "invoke"
    /\ UNCHANGED <<dll, fn, entry, ret, result, exc, outcome, calls, draws, unscoped, seed,
                   seed0, gen, rngDepth, hostVars>>

ConvertThrow ==
    /\ pc = "convert"
    /\ \E n \in FirstToThrow(fn, sexp) :
          exc' = ConvertError(n, sexp[ParamIndex(fn, n)])
    /\ sexp' = ArgsAfterConvert(fn, sexp)
    /\ pc' = "unwind"
    /\ UNCHANGED <<dll, fn, entry, locals, ret, result, outcome, calls, draws, unscoped,
                   seed, seed0, gen, rngDepth, hostVars>>

\* The positional arguments of the wrapper's call of its routine.
Argv(w, loc) == [i \in 1..Len(CallArgs(w)) |-> loc[CallArgs(w)[i]]]

\* Generate_X_c(...) called by the wrapper: it returns a double ...
InvokeReturn ==
    /\ pc = "invoke"
    /\ LET r == Routine(fn, Argv(fn, locals), gen)
       IN  /\ r.err = ""
           /\ ret' = r.val
           /\ gen' = r.gen
           /\ draws' = draws + r.n
           /\ unscoped' = (unscoped \/ (r.n > 0 /\ rngDepth = 0))
    /\ calls' = Append(calls, [routine |-> fn, argv |-> Argv(fn, locals)])
    /\ pc' = "wrap"
    /\ UNCHANGED <<dll, fn, sexp, entry, locals, result, exc, outcome, seed, seed0,
                   rngDepth, hostVars>>

\* ... or throws.
InvokeThrow ==
    /\ pc = "invoke"
    /\ LET r == Routine(fn, Argv(fn, locals), gen)
       IN  /\ r.err # ""
           /\ exc' = r.err
           /\ gen' = r.gen
           /\ draws' = draws + r.n
           /\ unscoped' = (unscoped \/ (r.n > 0 /\ rngDepth = 0))
    /\ calls' = Append(calls, [routine |-> fn, argv |-> Argv(fn, locals)])
    /\ pc' = "unwind"
    /\ UNCHANGED <<dll, fn, sexp, entry, locals, ret, result, outcome, seed, seed0,
                   rngDepth, hostVars>>

\* rcpp_result_gen = Rcpp::wrap(...);
WrapResult ==
    /\ pc = "wrap"
    /\ result' = Wrap(ret)
    /\ pc' = "return"
    /\ UNCHANGED <<dll, fn, sexp, entry, locals, ret, exc, outcome, calls, draws, unscoped,
                   seed, seed0, gen, rngDepth, hostVars>>

\* return rcpp_result_gen; the locals are destroyed, the RNG scope among them.
Return ==
    /\ pc = "return"
    /\ rngDepth' = ExitRNGScope(rngDepth, seed, gen).depth
    /\ seed' = ExitRNGScope(rngDepth, seed, gen).seed
    /\ outcome' = Returned(result)
    /\ pc' = "done"
    /\ UNCHANGED <<dll, fn, sexp, entry, locals, ret, result, exc, calls, draws, unscoped,
                   seed0, gen, hostVars>>

\* Mutant of Unwind: the error leaves the wrapper without running destructors.
UnwindSkipsDestructors ==
    /\ pc = "unwind"
    /\ pc' = "catch"
    /\ UNCHANGED <<dll, fn, sexp, entry, locals, ret, result, exc, outcome, calls, draws,
                   unscoped, seed, seed0, gen, rngDepth, hostVars>>

\* The exception leaves the try block: the locals are destroyed on the way.
Unwind ==
    /\ pc = "unwind"
    /\ rngDepth' = ExitRNGScope(rngDepth, seed, gen).depth
    /\ seed' = ExitRNGScope(rngDepth, seed, gen).seed
    /\ pc' = "catch"
    /\ UNCHANGED <<dll, fn, sexp, entry, locals, ret, result, exc, outcome, calls, draws,
                   unscoped, seed0, gen, hostVars>>

\* Mutant of Forward: the exception is caught and a null result returned.
ForwardSwallowed(e) == Returned(NilSxp)

\* What END_RCPP hands the host for a caught exception.
Forward(e) == Raised(e)

\* END_RCPP: the exception is caught and raised again as an error of the host.
Catch ==
    /\ pc = "catch"
    /\ outcome' = Forward(exc)
    /\ pc' = "done"
    /\ UNCHANGED <<dll, fn, sexp, entry, locals, ret, result, exc, calls, draws, unscoped, seed,
                   seed0, gen, rngDepth, hostVars>>

WrapperStep ==
    \/ Enter
    \/ ConvertArgs
    \/ ConvertThrow
    \/ InvokeReturn
    \/ InvokeThrow
    \/ WrapResult
    \/ Return
    \/ Unwind
    \/ Catch

Next ==
    \/ R_init
    \/ \E s \in 0..(RngMod - 1) : HostSetSeed(s)
    \/ HostCall
    \/ HostCallRejected
    \/ HostResume
    \/ WrapperStep

Spec == Init /\ [][Next]_vars

\* ------------------------------------------------------------------ claims
\* A wrapper has handed the host a sample.
Sampled(w) == pc = "done" /\ fn = w /\ outcome.kind = "value"

\* The shape and rate hyperparameters of each sampler.
ShapeParams(w) ==
    CASE w = "Rho" -> {"a_rho", "b_rho"}
      [] w = "Psi" -> {"a_psi", "b_psi"}
      [] w = "Eta" -> {"a_eta", "b_eta"}
      [] w = "Tau" -> {"a_tau", "b_tau"}
      [] OTHER -> {}

\* The value the caller passed for parameter n of wrapper w.
Passed(w, n) == entry[ParamIndex(w, n)]

\* All arguments of the call convert to the native types.
Convertible == fn \in Samplers /\ \A n \in ParamSet(fn) : ConvertError(n, Passed(fn, n)) = ""

ValidHyper == Convertible /\ \A n \in ShapeParams(fn) : Passed(fn, n).v > 0

\* C1: with valid hyperparameters, the value Generate_Rho_c or Generate_Psi_c
\* returns lies in [0,1] and the value Generate_Eta_c or Generate_Tau_c returns
\* is strictly positive, and the wrapper hands the host exactly that value.
C1_OutputBounds ==
    /\ (pc \in {"wrap", "return"} /\ ValidHyper) =>
          /\ fn \in {"Rho", "Psi"} => (0 <= ret /\ ret <= Unit)
          /\ fn \in {"Eta", "Tau"} => ret > 0
    /\ (pc = "done" /\ outcome.kind = "value" /\ ValidHyper) =>
          /\ outcome.val.t = "REALSXP"
          /\ outcome.val.d = 0
          /\ outcome.val.v = ret
          /\ fn \in {"Rho", "Psi"} => (0 <= outcome.val.v /\ outcome.val.v <= Unit)
          /\ fn \in {"Eta", "Tau"} => outcome.val.v > 0

C1_Witness ==
    /\ Sampled("Rho")
    /\ entry[1].d = 2
    /\ outcome.val.v = Unit

C1_WitnessEta == Sampled("Eta") /\ outcome.val.v > 1

\* C2: a call in which a shape parameter is 0 or negative fails with
\* InvalidHyperparameter and returns no sample.
C2_InvalidHyperparameter ==
    (/\ pc = "done"
     /\ Convertible
     /\ \E n \in ShapeParams(fn) : Passed(fn, n).v <= 0)
        => outcome = Raised("InvalidHyperparameter")

C2_Witness ==
    /\ pc = "done"
    /\ fn = "Rho"
    /\ Convertible
    /\ Passed("Rho", "a_rho").v = 1
    /\ Passed("Rho", "b_rho").v < 0
    /\ outcome.err = "InvalidHyperparameter"

\* C3: a failure of the routine or of an argument's conversion inside a wrapper
\* is never swallowed: no sample is returned and the host gets the error.
C3_NoSwallow ==
    /\ exc # "" => /\ pc \in {"unwind", "catch", "done"}
                   /\ result = NilSxp
                   /\ outcome.kind # "value"
    /\ (pc = "done" /\ exc # "") => outcome = Raised(exc)
    /\ (pc = "done" /\ fn \in Samplers /\ exc = "") => outcome.kind = "value"

C3_Witness ==
    /\ pc = "done"
    /\ fn = "Tau"
    /\ exc = "NumericalDegeneracy"
    /\ outcome.kind = "error"

C3_WitnessConversion ==
    /\ pc = "done"
    /\ fn = "Psi"
    /\ exc = "not_a_matrix"
    /\ outcome.kind = "error"

\* C4: a sampler call never mutates its inputs: the matrix and every scalar
\* argument held by the caller are the same after the call returns or fails,
\* and at every point of the call, as when the call was made.
C4_InputsUnchanged == fn \in Samplers => sexp = entry

C4_Witness ==
    /\ Sampled("Rho")
    /\ entry[1].t = "INTSXP"
    /\ entry[1].d = 1

C4_WitnessFailed ==
    /\ pc = "done"
    /\ fn = "Psi"
    /\ outcome.kind = "error"
    /\ entry[1].d = 2

\* C6: a successful call of Generate_Rho_c or Generate_Psi_c advances the
\* host's generator by exactly one draw, whatever the matrix and the
\* hyperparameters are.
C6_OneDraw ==
    (pc = "done" /\ fn \in {"Rho", "Psi"} /\ outcome.kind = "value") =>
        /\ draws = 1
        /\ gen = NextGen(seed0)
        /\ seed = NextGen(seed0)

C6_Witness ==
    /\ Sampled("Psi")
    /\ EdgeCount(AsMat(entry[1])) = 2
    /\ seed # seed0

\* C8: after R_init_ReciprocalGraphicalModels the library has exactly four
\* registered routines with distinct names, each pointing at the wrapper of
\* that name and declaring as many arguments as the wrapper and its routine
\* take (4, 4, 5, 5); the table ends with a single null entry; dynamic lookup
\* is off, so only those four symbols resolve.
C8_DispatchTable ==
    dll.loaded =>
        /\ Len(dll.callRoutines) = 4
        /\ \A i, j \in 1..Len(dll.callRoutines) :
              dll.callRoutines[i].name = dll.callRoutines[j].name => i = j
        /\ {dll.callRoutines[i].fun : i \in 1..Len(dll.callRoutines)} = Samplers
        /\ \A i \in 1..Len(dll.callRoutines) :
              LET e == dll.callRoutines[i]
              IN  /\ e.name = WrapperName(e.fun)
                  /\ e.numArgs = Len(WrapperParams(e.fun))
                  /\ e.numArgs = Len(RoutineParams(e.fun))
                  /\ e.numArgs = (IF e.fun \in {"Rho", "Psi"} THEN 4 ELSE 5)
        /\ Len(CallEntries) = 5
        /\ \A i \in 1..Len(CallEntries) : (CallEntries[i].name = "NULL") <=> (i = 5)
        /\ CallEntries[5] = NullEntry
        /\ ~dll.useDynamicSymbols
        /\ \A name \in DllSymbols :
              Resolve(dll, name).found <=> (\E w \in Samplers : name = WrapperName(w))
        /\ (pc # "idle" /\ pc # "done") => fn \in Samplers
        /\ (pc # "idle" /\ fn \in Samplers) => Len(entry) = Len(WrapperParams(fn))

C8_Witness ==
    /\ dll.loaded
    /\ pc = "done"
    /\ outcome = Raised("symbol not available for .Call")

C8_WitnessArity ==
    /\ dll.loaded
    /\ pc = "done"
    /\ outcome = Raised("incorrect number of arguments")

\* C9: in every wrapper the RNG scope is entered before the routine is invoked
\* and left after the result is boxed; every scope entered is left once on
\* every exit path, a throwing conversion or routine included, so no scope
\* stays open after a call and no variate is drawn outside an open scope.
C9_RngScope ==
    /\ pc \in {"convert", "invoke", "wrap", "return", "unwind"} => rngDepth = 1
    /\ pc \in {"idle", "enter", "catch", "done"} => rngDepth = 0
    /\ pc = "return" => (result.t = "REALSXP" /\ Len(calls) = 1)
    /\ pc \in {"enter", "convert"} => (draws = 0 /\ calls = <<>>)
    /\ ~unscoped

C9_Witness ==
    /\ pc = "done"
    /\ fn = "Eta"
    /\ exc = "not_compatible"
    /\ rngDepth = 0

C9_WitnessRoutineThrows ==
    /\ pc = "catch"
    /\ fn = "Rho"
    /\ exc = "DimensionMismatch"
    /\ rngDepth = 0

C9_WitnessReturn == Sampled("Eta") /\ draws = 1 /\ rngDepth = 0

\* C10: a wrapper invokes its routine exactly once per successful call, with
\* the converted arguments in the positions the wrapper received them in,
\* validates and transforms none of the values, and returns the routine's
\* result boxed and otherwise unchanged.
C10_Forwarding ==
    (pc = "done" /\ fn \in Samplers) =>
        /\ Len(calls) = (IF Convertible THEN 1 ELSE 0)
        /\ outcome.kind = "value" => Len(calls) = 1
        /\ \A c \in 1..Len(calls) :
              /\ calls[c].routine = fn
              /\ Len(calls[c].argv) = Len(entry)
              /\ \A i \in 1..Len(entry) :
                    calls[c].argv[i] =
                        (IF i = 1 /\ fn \in {"Rho", "Psi"}
                         THEN Mat(entry[i].d, entry[i].m)
                         ELSE Dbl(IF entry[i].d = 0 THEN entry[i].v ELSE entry[i].m[1]))
        /\ outcome.kind = "value" => outcome.val = RealSxp(ret)

C10_Witness ==
    /\ Sampled("Eta")
    /\ entry[1].v = 0
    /\ entry[2].v # 0
    /\ entry[3].v = 2
    /\ entry[4].v = 1
    /\ entry[5].v = 1

C10_WitnessTau ==
    /\ Sampled("Tau")
    /\ entry[1].v # entry[2].v
    /\ entry[3].v # entry[4].v

\* ------------------------------------------------- a call and its repetition
\* The scalars of the calls the host repeats.
ReproScalars == {RealSxp(0), RealSxp(1), IntSxp(2), StrSxp}

ReproArgLists(w) ==
    IF w \in {"Rho", "Psi"}
    THEN {<<M, x, y, z>> : M \in MatVals, x \in ReproScalars, y \in ReproScalars,
                           z \in ReproScalars}
    ELSE {<<v, w1, x, y, z>> : v \in ReproScalars, w1 \in ReproScalars, x \in ReproScalars,
                              y \in ReproScalars, z \in ReproScalars}

\* The host calls a sampler.
FirstCall ==
    /\ pc = "idle"
    /\ dll.loaded
    /\ ~ref.set
    /\ \E w \in Samplers : \E args \in ReproArgLists(w) :
          /\ DispatchError(dll, WrapperName(w), args) = ""
          /\ EnterWrapper(Resolve(dll, WrapperName(w)).fun, args)
    /\ UNCHANGED hostVars

\* The host keeps what the call gave and puts .Random.seed back to what it
\* was when the call was made.
Remember ==
    /\ pc = "done"
    /\ fn \in Samplers
    /\ ~ref.set
    /\ ref' = [set |-> TRUE, again |-> FALSE, fn |-> fn, args |-> entry, seed0 |-> seed0,
               outcome |-> outcome, seed1 |-> seed, gen1 |-> gen]
    /\ seed' = seed0
    /\ pc' = "idle"
    /\ UNCHANGED <<dll, fn, sexp, entry, locals, ret, result, exc, outcome, calls, draws,
                   unscoped, seed0, gen, rngDepth, st, st0, todo, used, inp>>

\* The host makes the same call again.
SecondCall ==
    /\ pc = "idle"
    /\ ref.set
    /\ ~ref.again
    /\ DispatchError(dll, WrapperName(ref.fn), ref.args) = ""
    /\ EnterWrapper(Resolve(dll, WrapperName(ref.fn)).fun, ref.args)
    /\ ref' = [ref EXCEPT !.again = TRUE]
    /\ UNCHANGED <<st, st0, todo, used, inp>>

\* The host is done comparing and starts afresh, with some seed.
Forget ==
    /\ pc = "done"
    /\ ref.again
    /\ ref' = NoRef
    /\ pc' = "idle"
    /\ fn' = "none"
    /\ sexp' = <<>>
    /\ entry' = <<>>
    /\ locals' = <<>>
    /\ ret' = 0
    /\ result' = NilSxp
    /\ exc' = ""
    /\ outcome' = NoOutcome
    /\ calls' = <<>>
    /\ draws' = 0
    /\ \E s \in 0..(RngMod - 1) : seed' = s /\ seed0' = s
    /\ UNCHANGED <<dll, unscoped, gen, rngDepth, st, st0, todo, used, inp>>

ReproInit == Init /\ gen = seed

ReproNext ==
    \/ R_init
    \/ FirstCall
    \/ WrapperStep
    \/ Remember
    \/ SecondCall
    \/ Forget

ReproSpec == ReproInit /\ [][ReproNext]_vars

\* C5: two calls of a sampler with identical arguments, started from the same
\* state of the host's generator, return identical outputs and leave the
\* generator in identical states.
C5_Reproducible ==
    (pc = "done" /\ ref.again) =>
        /\ fn = ref.fn
        /\ entry = ref.args
        /\ seed0 = ref.seed0
        /\ outcome = ref.outcome
        /\ seed = ref.seed1
        /\ gen = ref.gen1

C5_Witness ==
    /\ pc = "done"
    /\ ref.again
    /\ fn = "Eta"
    /\ outcome.kind = "value"
    /\ outcome.val.v > 1
    /\ ref.seed1 # ref.seed0

\* ------------------------------------------------------- the Gibbs driver
\* The driver's inputs for one chain: one matrix for Gamma and Phi with its
\* dimension, one value for every shape and rate, one for the coefficients.
SweepInput(M, h, c) ==
    [n \in InputNames |->
        CASE n \in {"Gamma", "Phi"} -> M
          [] n \in {"p", "d"} -> IntSxp(M.d)
          [] n \in UNION {ShapeParams(w) : w \in Samplers} -> h
          [] n \in {"a", "b"} -> c
          [] OTHER -> RealSxp(1)]

SweepInputs ==
    {SweepInput(M, h, c) :
        M \in UNION {{RealMatSxp(d, EdgeMat(d, k)) : k \in 0..(d * (d - 1))} : d \in 1..MatDim},
        h \in {RealSxp(v) : v \in 0..MaxVal},
        c \in {RealSxp(v) : v \in 0..MaxVal} \cup {StrSxp}}

\* Mutant of SweepArgs: Eta's global scale is read from the Psi of the state,
\* Tau's from the Rho.
SweepArgsChained(w, in, state) ==
    [i \in 1..Len(WrapperParams(w)) |->
        CASE WrapperParams(w)[i] = "phi" -> RealSxp(state["Psi"])
          [] WrapperParams(w)[i] = "gamma" -> RealSxp(state["Rho"])
          [] OTHER -> in[WrapperParams(w)[i]]]

\* The arguments the driver calls sampler w with: each parameter is bound by
\* name to the driver's input of that name; no parameter names an output.
SweepArgs(w, in, state) == [i \in 1..Len(WrapperParams(w)) |-> in[WrapperParams(w)[i]]]

SweepInit ==
    /\ dll = UnloadedDll
    /\ pc = "idle"
    /\ fn = "none"
    /\ sexp = <<>>
    /\ entry = <<>>
    /\ locals = <<>>
    /\ ret = 0
    /\ result = NilSxp
    /\ exc = ""
    /\ outcome = NoOutcome
    /\ calls = <<>>
    /\ draws = 0
    /\ unscoped = FALSE
    /\ seed \in 0..(RngMod - 1)
    /\ seed0 = seed
    /\ gen = seed
    /\ rngDepth = 0
    /\ st = [s \in Samplers |-> 1]
    /\ st0 = st
    /\ todo = Samplers
    /\ used = NoState
    /\ inp \in SweepInputs
    /\ ref = NoRef

\* The driver calls a sampler it has not called yet in this sweep.
SweepCall(w) ==
    /\ pc = "idle"
    /\ dll.loaded
    /\ w \in todo
    /\ DispatchError(dll, WrapperName(w), SweepArgs(w, inp, st)) = ""
    /\ EnterWrapper(Resolve(dll, WrapperName(w)).fun, SweepArgs(w, inp, st))
    /\ used' = [used EXCEPT ![w] = seed]
    /\ UNCHANGED <<st, st0, todo, inp, ref>>

\* The driver stores the sample as the new value of the sampler's variable;
\* a call that failed leaves the variable as it was.
SweepStore ==
    /\ pc = "done"
    /\ fn \in todo
    /\ st' = IF outcome.kind = "value" THEN [st EXCEPT ![fn] = outcome.val.v] ELSE st
    /\ todo' = todo \ {fn}
    /\ pc' = "idle"
    /\ sexp' = <<>>
    /\ entry' = <<>>
    /\ locals' = <<>>
    /\ ret' = 0
    /\ result' = NilSxp
    /\ exc' = ""
    /\ outcome' = NoOutcome
    /\ calls' = <<>>
    /\ draws' = 0
    /\ seed0' = seed
    /\ UNCHANGED <<dll, fn, unscoped, seed, gen, rngDepth, st0, used, inp, ref>>

SweepNext ==
    \/ R_init
    \/ \E w \in Samplers : SweepCall(w)
    \/ WrapperStep
    \/ SweepStore

SweepSpec == SweepInit /\ [][SweepNext]_vars

\* The value sampler w's variable has after the sweep, computed from the state
\* the sweep started in and the generator state w's call drew from.
AfterSweep(w) ==
    LET args == [i \in 1..Len(WrapperParams(w)) |-> inp[WrapperParams(w)[i]]]
        ok == \A i \in 1..Len(args) : ConvertError(WrapperParams(w)[i], args[i]) = ""
        argv == [i \in 1..Len(args) |-> Convert(WrapperParams(w)[i], args[i])]
    IN  IF ~ok THEN st0[w]
        ELSE IF Routine(w, argv, used[w]).err # "" THEN st0[w]
        ELSE Routine(w, argv, used[w]).val

\* C7: within a sweep that calls each sampler once, a call changes only its own
\* variable, its arguments depend on no value another sampler produced earlier
\* in the sweep, and so the state after the sweep is determined by the state
\* before it and the draws each sampler got, whatever the order of the calls.
C7_GibbsStep ==
    /\ \A w \in todo : st[w] = st0[w]
    /\ \A w \in Samplers \ todo : st[w] = AfterSweep(w)
    /\ (pc \notin {"idle"} /\ fn \in Samplers) =>
          \A i \in 1..Len(entry) : entry[i] = inp[WrapperParams(fn)[i]]

C7_Witness ==
    /\ todo = {}
    /\ pc = "idle"
    /\ st["Rho"] # st0["Rho"]
    /\ st["Eta"] # st0["Eta"]
    /\ st["Tau"] # st["Eta"]
    /\ used["Tau"] # used["Eta"]

====
